---- MODULE Spec2Model ----
(***************************************************************************)
(* Model of the room chat server (src/server.js): the record store         *)
(* (rooms, messages), the in-memory registry (clientsByRoom, adminsByRoom, *)
(* pending), the WebSocket connections and the asynchronous handlers.      *)
(* Every `await` of a handler is a suspension point: the handler is a task *)
(* whose pc names the statement it resumes at.  A record-store call is     *)
(* submitted by the handler, executed later by DbExec, and its result is   *)
(* consumed by the handler's continuation in a third step.                 *)
(***************************************************************************)
EXTENDS Integers, Sequences, FiniteSets, TLC

\* ---------------------------------------------------------------- bounds
MaxEvents == 5     \* inbound messages and requests in one run
MaxReqs == 2       \* request ids makeId() hands out in one run
MaxMsgs == 2       \* message rows inserted in one run
MaxStored == 202   \* rows already in the messages table, one of them of the other room

\* ------------------------------------------------------ program constants
HistoryLimit == 200

\* ---------------------------------------------------------------- domains
Conns == {"c1", "c2"}
RoomIds == {"r1", "r2"}
Http == "http"
Null == "null"
RoomPw == "p"
AdminPw == "a"
Passwords == {RoomPw, AdminPw}
LongName == "ABCDEFGHIJKLMNOPQRSTUVWXYZ"
AdminNames == {""}
JoinNames == {LongName}
UploadNames == {""}
RoomIdInputs == {" r1 ", "r2", "r0"}   \* r0 is never created
IdInputs == 0..MaxReqs
ActionInputs == {"enable", "disable", "clear", "purge"}
HttpRoomInputs == {"", "r1", "r2"}
HttpPwInputs == {"", RoomPw, AdminPw}
MimeInputs == {"IMAGE/PNG", "application/pdf"}
TextInputs == {"  ", " hi "}
Tasks == {1, 2}

VARIABLES
  rooms,          \* rooms table: roomId -> row, NoRoom when absent
  messages,       \* messages table in id order
  inserted,       \* number of rows ever inserted into messages
  conns,          \* ws -> [readyState, roomId, sender, isAdmin]
  clientsByRoom,  \* roomId -> set of ws
  adminsByRoom,   \* roomId -> set of ws
  pending,        \* requestId -> [ws, roomId, sender], NoReq when absent
  nextId,         \* number of request ids handed out
  tasks,          \* handlers in flight
  out,            \* ws -> what the last step sent to it, in order
  res,            \* HTTP reply of the last step, Null if none
  alive,          \* FALSE once the process has died
  events          \* number of inbound messages and requests so far

vars == <<rooms, messages, inserted, conns, clientsByRoom, adminsByRoom,
          pending, nextId, tasks, out, res, alive, events>>

\* ---------------------------------------------------------- pure helpers
\* String.prototype.trim on the inputs of the model
Trim(s) ==
  CASE s = " r1 " -> "r1"
    [] s = "  " -> ""
    [] s = " hi " -> "hi"
    [] OTHER -> s

\* (x || dflt).toString().slice(0, 20)
SliceName(s, dflt) ==
  IF s = "" THEN dflt
  ELSE IF s = LongName THEN "ABCDEFGHIJKLMNOPQRST"
  ELSE s

\* bcrypt.hash / bcrypt.compare as an opaque one-way pair
Hash(p) == <<"hash", p>>
Compare(p, h) == h = Hash(p)

NoRoom == [found |-> FALSE, roomPassHash |-> Hash(""), adminPassHash |-> Hash(""), enabled |-> FALSE]
RoomRow(rp, ap, en) == [found |-> TRUE, roomPassHash |-> Hash(rp), adminPassHash |-> Hash(ap), enabled |-> en]
NoReq == [ws |-> Null, roomId |-> Null, sender |-> ""]
ReqIds == 1..MaxReqs
NoId == 0

\* SELECT * FROM rooms WHERE roomId = ?
getRoomRow(tbl, roomId) == IF roomId \in DOMAIN tbl THEN tbl[roomId] ELSE NoRoom

\* WHERE roomId=? ORDER BY id ASC
SelectRoom(tbl, roomId) ==
  LET InRoom(m) == m.roomId = roomId IN SelectSeq(tbl, InRoom)

\* ... LIMIT ?
Limit(s, n) == IF Len(s) <= n THEN s ELSE SubSeq(s, 1, n)

\* variant without the WHERE clause
getHistory_AllRooms(tbl, roomId, limit) == Limit(tbl, limit)
\* rows are returned as stored; the roomId column, which the SELECT list
\* leaves out, is kept on them so that a row's room can be told
getHistory(tbl, roomId, limit) == Limit(SelectRoom(tbl, roomId), limit)

\* variant without the WHERE clause
DeleteRoom_Every(tbl, roomId) == <<>>
\* DELETE FROM messages WHERE roomId=?
DeleteRoom(tbl, roomId) ==
  LET Others(m) == m.roomId # roomId IN SelectSeq(tbl, Others)

FileUrl == "/uploads/f"
TextRow(roomId, sender, text) ==
  [roomId |-> roomId, sender |-> sender, kind |-> "text", text |-> text, mime |-> ""]
FileRow(roomId, sender, url, mime) ==
  [roomId |-> roomId, sender |-> sender, kind |-> "file", text |-> url, mime |-> mime]

\* ------------------------------------------------------------- registry
addTo(map, key, ws) == [map EXCEPT ![key] = @ \cup {ws}]
removeFrom(map, key, ws) == [map EXCEPT ![key] = @ \ {ws}]

Ev(type, arg) == [type |-> type, arg |-> arg]
NoOut == [c \in Conns |-> <<>>]

\* send(ws, obj): dropped unless the socket is OPEN
send(cs, o, ws, e) ==
  IF cs[ws].readyState = "OPEN" THEN [o EXCEPT ![ws] = Append(@, e)] ELSE o

\* for (const ws of set) send(ws, msg)
sendAll(cs, o, set, e) ==
  [c \in Conns |-> IF c \in set /\ cs[c].readyState = "OPEN" THEN Append(o[c], e) ELSE o[c]]

\* broadcastToRoom / broadcastToAdmins over the given Map
broadcastToRoom(cbr, cs, o, roomId, e) == sendAll(cs, o, cbr[roomId], e)
broadcastToAdmins(abr, cs, o, roomId, e) == sendAll(cs, o, abr[roomId], e)

\* ws.close(): an OPEN socket starts its closing handshake
closeWs(cs, ws) ==
  IF cs[ws].readyState = "OPEN" THEN [cs EXCEPT ![ws].readyState = "CLOSING"] ELSE cs
closeAll(cs, set) ==
  [c \in Conns |-> IF c \in set /\ cs[c].readyState = "OPEN"
                   THEN [cs[c] EXCEPT !.readyState = "CLOSING"] ELSE cs[c]]
\* the "close" marker in out records that ws.close() was called on an OPEN socket
markClosed(cs, o, set) ==
  [c \in Conns |-> IF c \in set /\ cs[c].readyState = "OPEN"
                   THEN Append(o[c], Ev("close", "")) ELSE o[c]]

\* ---------------------------------------------------------------- tasks
IdleTask ==
  [kind |-> "idle", pc |-> "idle", ws |-> Null, roomId |-> Null, pw |-> "",
   pw2 |-> "", sender |-> "", text |-> "", reqId |-> NoId, target |-> Null,
   op |-> "none", room |-> NoRoom, hist |-> <<>>]

\* slot t is the first free one (slots are interchangeable)
FreeSlot(t) == tasks[t].kind = "idle" /\ \A u \in Tasks : u < t => tasks[u].kind # "idle"

NewConn == [readyState |-> "NEW", roomId |-> Null, sender |-> "User", isAdmin |-> FALSE]

\* the server has just started on a data.db that holds the rooms rs
InitWith(rs, msgs) ==
  /\ rooms = [r \in rs |-> RoomRow(RoomPw, AdminPw, TRUE)]
  /\ messages = msgs
  /\ inserted = 0
  /\ conns = [c \in Conns |-> NewConn]
  /\ clientsByRoom = [r \in RoomIds |-> {}]
  /\ adminsByRoom = [r \in RoomIds |-> {}]
  /\ pending = [i \in ReqIds |-> NoReq]
  /\ nextId = 0
  /\ tasks = [t \in Tasks |-> IdleTask]
  /\ out = NoOut
  /\ res = Null
  /\ alive = TRUE
  /\ events = 0

Solo == {1}
Pair == {1, 2}

\* ------------------------------------------------------------ connection
\* wss.on("connection"); sockets are interchangeable, c2 stands for the later one
Connect(c) ==
  /\ alive
  /\ c = "c2" => conns["c1"].readyState # "NEW"
  /\ conns[c].readyState = "NEW"
  /\ conns' = [conns EXCEPT ![c].readyState = "OPEN"]
  /\ out' = NoOut
  /\ res' = Null
  /\ UNCHANGED <<rooms, messages, inserted, clientsByRoom, adminsByRoom, pending, nextId, tasks, alive, events>>

\* ids of the pending entries of ws, in Map (insertion) order
RECURSIVE OwnedFrom(_, _, _)
OwnedFrom(pend, ws, i) ==
  IF i > MaxReqs THEN <<>>
  ELSE IF pend[i].ws = ws THEN <<i>> \o OwnedFrom(pend, ws, i + 1)
  ELSE OwnedFrom(pend, ws, i + 1)

\* the join-request-closed broadcasts of the close handler, one per id
RECURSIVE CloseNotify(_, _, _, _, _)
CloseNotify(abr, cs, o, pend, ids) ==
  IF ids = <<>> THEN o
  ELSE CloseNotify(abr, cs,
         broadcastToAdmins(abr, cs, o, pend[Head(ids)].roomId, Ev("join-request-closed", Head(ids))),
         pend, Tail(ids))

\* ws.on("close")
Close(c) ==
  /\ alive
  /\ conns[c].readyState \in {"OPEN", "CLOSING"}
  /\ LET cs == [conns EXCEPT ![c].readyState = "CLOSED"]
         rid == conns[c].roomId
         cbr == IF rid # Null THEN removeFrom(clientsByRoom, rid, c) ELSE clientsByRoom
         abr == IF rid # Null THEN removeFrom(adminsByRoom, rid, c) ELSE adminsByRoom
         ids == OwnedFrom(pending, c, 1)
     IN /\ conns' = cs
        /\ clientsByRoom' = cbr
        /\ adminsByRoom' = abr
        /\ pending' = [i \in ReqIds |-> IF pending[i].ws = c THEN NoReq ELSE pending[i]]
        /\ out' = CloseNotify(abr, cs, NoOut, pending, ids)
  /\ res' = Null
  /\ UNCHANGED <<rooms, messages, inserted, nextId, tasks, alive, events>>

\* --------------------------------------------------------- record store
Receiving(c) == conns[c].readyState \in {"OPEN", "CLOSING"}
Writers == Cardinality({t \in Tasks : tasks[t].kind \in {"chat", "upload"}})

\* the record store runs the statement a handler is waiting for
DbExec(t) ==
  /\ alive
  /\ tasks[t].op # "none"
  /\ ~(tasks[t].op = "insertRoom" /\ tasks[t].roomId \in DOMAIN rooms)  \* PRIMARY KEY
  /\ LET k == tasks[t] IN
     /\ tasks' = [tasks EXCEPT ![t].op = "none",
                     ![t].room = IF k.op = "getRoom" THEN getRoomRow(rooms, k.roomId) ELSE @,
                     ![t].hist = IF k.op = "getHistory" THEN getHistory(messages, k.roomId, HistoryLimit) ELSE @]
     /\ rooms' = CASE k.op = "enable" /\ k.roomId \in DOMAIN rooms -> [rooms EXCEPT ![k.roomId].enabled = TRUE]
                   [] k.op = "disable" /\ k.roomId \in DOMAIN rooms -> [rooms EXCEPT ![k.roomId].enabled = FALSE]
                   [] k.op = "insertRoom" -> [r \in DOMAIN rooms \cup {k.roomId} |->
                                               IF r = k.roomId THEN RoomRow(k.pw, k.pw2, TRUE) ELSE rooms[r]]
                   [] OTHER -> rooms
     /\ messages' = CASE k.op = "addText" -> Append(messages, TextRow(k.roomId, k.sender, k.text))
                      [] k.op = "addFile" -> Append(messages, FileRow(k.roomId, k.sender, FileUrl, k.text))
                      [] k.op = "clearChat" -> DeleteRoom(messages, k.roomId)
                      [] OTHER -> messages
     /\ inserted' = IF k.op \in {"addText", "addFile"} THEN inserted + 1 ELSE inserted
  /\ out' = NoOut
  /\ res' = Null
  /\ UNCHANGED <<conns, clientsByRoom, adminsByRoom, pending, nextId, alive, events>>

\* the statement fails: an HTTP handler's catch replies 500, a WebSocket
\* handler has no catch and its promise rejects unhandled, which the
\* runtime either reports (process goes on) or dies of
DbFail(t) ==
  /\ alive
  /\ tasks[t].op # "none"
  /\ tasks' = [tasks EXCEPT ![t] = IdleTask]
  /\ out' = NoOut
  /\ IF tasks[t].ws = Http
     THEN res' = "500" /\ alive' = TRUE
     ELSE res' = Null /\ alive' \in BOOLEAN
  /\ UNCHANGED <<rooms, messages, inserted, conns, clientsByRoom, adminsByRoom, pending, nextId, events>>

\* ---------------------------------------------------------- admin-attach
StartAdminAttach(t, c, rid, pw, s) ==
  /\ alive /\ events < MaxEvents /\ Receiving(c) /\ FreeSlot(t)
  /\ tasks' = [tasks EXCEPT ![t] =
        [IdleTask EXCEPT !.kind = "admin-attach", !.pc = "aa1", !.ws = c,
           !.roomId = Trim(rid), !.pw = pw, !.sender = SliceName(s, "Admin"),
           !.op = "getRoom"]]
  /\ out' = NoOut
  /\ res' = Null
  /\ UNCHANGED <<rooms, messages, inserted, conns, clientsByRoom, adminsByRoom, pending, nextId, alive>>
  /\ events' = events + 1

\* pending-list: the entries of the room, in Map order
RECURSIVE PendList(_, _, _)
PendList(pend, roomId, i) ==
  IF i > MaxReqs THEN <<>>
  ELSE IF pend[i].ws # Null /\ pend[i].roomId = roomId
       THEN <<[requestId |-> i, sender |-> pend[i].sender]>> \o PendList(pend, roomId, i + 1)
       ELSE PendList(pend, roomId, i + 1)

\* after await getRoom
AdminAttachRoom(t) ==
  /\ alive
  /\ tasks[t].kind = "admin-attach" /\ tasks[t].pc = "aa1" /\ tasks[t].op = "none"
  /\ IF ~tasks[t].room.found
     THEN /\ out' = send(conns, NoOut, tasks[t].ws, Ev("error", "Room not found"))
          /\ tasks' = [tasks EXCEPT ![t] = IdleTask]
     ELSE /\ out' = NoOut
          /\ tasks' = [tasks EXCEPT ![t].pc = "aa2"]
  /\ res' = Null
  /\ UNCHANGED <<rooms, messages, inserted, conns, clientsByRoom, adminsByRoom, pending, nextId, alive, events>>

\* after await bcrypt.compare: attach, reply, ask for the history
AdminAttachVerified(t) ==
  /\ alive
  /\ tasks[t].kind = "admin-attach" /\ tasks[t].pc = "aa2"
  /\ LET k == tasks[t] IN
     IF ~Compare(k.pw, k.room.adminPassHash)
     THEN /\ out' = send(conns, NoOut, k.ws, Ev("error", "Wrong admin password"))
          /\ tasks' = [tasks EXCEPT ![t] = IdleTask]
          /\ UNCHANGED <<conns, clientsByRoom, adminsByRoom>>
     ELSE /\ conns' = [conns EXCEPT ![k.ws].isAdmin = TRUE, ![k.ws].roomId = k.roomId,
                                     ![k.ws].sender = k.sender]
          /\ adminsByRoom' = addTo(adminsByRoom, k.roomId, k.ws)
          /\ clientsByRoom' = addTo(clientsByRoom, k.roomId, k.ws)
          /\ out' = send(conns,
                       send(conns, NoOut, k.ws,
                            Ev("admin-attached", [roomId |-> k.roomId, enabled |-> k.room.enabled])),
                       k.ws, Ev("pending-list", PendList(pending, k.roomId, 1)))
          /\ tasks' = [tasks EXCEPT ![t].pc = "aa3", ![t].op = "getHistory"]
  /\ res' = Null
  /\ UNCHANGED <<rooms, messages, inserted, pending, nextId, alive, events>>

\* after await getHistory
AdminAttachHistory(t) ==
  /\ alive
  /\ tasks[t].kind = "admin-attach" /\ tasks[t].pc = "aa3" /\ tasks[t].op = "none"
  /\ LET k == tasks[t] IN
     out' = broadcastToRoom(clientsByRoom, conns,
              send(conns, NoOut, k.ws, Ev("history", k.hist)),
              k.roomId, Ev("system", <<k.sender, " (admin) joined.">>))
  /\ tasks' = [tasks EXCEPT ![t] = IdleTask]
  /\ res' = Null
  /\ UNCHANGED <<rooms, messages, inserted, conns, clientsByRoom, adminsByRoom, pending, nextId, alive, events>>

\* ---------------------------------------------------------- request-join
Joiners == Cardinality({t \in Tasks : tasks[t].kind = "request-join"})

StartRequestJoin(t, c, rid, pw, s) ==
  /\ alive /\ events < MaxEvents /\ Receiving(c) /\ FreeSlot(t)
  /\ nextId + Joiners < MaxReqs
  /\ tasks' = [tasks EXCEPT ![t] =
        [IdleTask EXCEPT !.kind = "request-join", !.pc = "rj1", !.ws = c,
           !.roomId = Trim(rid), !.pw = pw, !.sender = SliceName(s, "User"),
           !.op = "getRoom"]]
  /\ out' = NoOut
  /\ res' = Null
  /\ UNCHANGED <<rooms, messages, inserted, conns, clientsByRoom, adminsByRoom, pending, nextId, alive>>
  /\ events' = events + 1

\* mutant of RequestJoinRoom: the enabled check is missing
RequestJoinRoom_NoEnabledCheck(t) ==
  /\ alive
  /\ tasks[t].kind = "request-join" /\ tasks[t].pc = "rj1" /\ tasks[t].op = "none"
  /\ LET k == tasks[t] IN
     IF ~k.room.found
     THEN /\ out' = send(conns, NoOut, k.ws, Ev("error", "Room not found"))
          /\ tasks' = [tasks EXCEPT ![t] = IdleTask]
     ELSE /\ out' = NoOut
          /\ tasks' = [tasks EXCEPT ![t].pc = "rj2"]
  /\ res' = Null
  /\ UNCHANGED <<rooms, messages, inserted, conns, clientsByRoom, adminsByRoom, pending, nextId, alive, events>>

\* after await getRoom
RequestJoinRoom(t) ==
  /\ alive
  /\ tasks[t].kind = "request-join" /\ tasks[t].pc = "rj1" /\ tasks[t].op = "none"
  /\ LET k == tasks[t] IN
     IF ~k.room.found
     THEN /\ out' = send(conns, NoOut, k.ws, Ev("error", "Room not found"))
          /\ tasks' = [tasks EXCEPT ![t] = IdleTask]
     ELSE IF ~k.room.enabled
     THEN /\ out' = send(conns, NoOut, k.ws, Ev("error", "Room disabled"))
          /\ tasks' = [tasks EXCEPT ![t] = IdleTask]
     ELSE /\ out' = NoOut
          /\ tasks' = [tasks EXCEPT ![t].pc = "rj2"]
  /\ res' = Null
  /\ UNCHANGED <<rooms, messages, inserted, conns, clientsByRoom, adminsByRoom, pending, nextId, alive, events>>

\* variant that does not notify the admins
RequestJoinVerified_NoNotify(t) ==
  /\ alive
  /\ tasks[t].kind = "request-join" /\ tasks[t].pc = "rj2"
  /\ LET k == tasks[t]
         id == nextId + 1
     IN
     IF ~Compare(k.pw, k.room.roomPassHash)
     THEN /\ out' = send(conns, NoOut, k.ws, Ev("error", "Wrong passkey"))
          /\ UNCHANGED <<conns, pending, nextId>>
     ELSE /\ conns' = [conns EXCEPT ![k.ws].sender = k.sender]
          /\ nextId' = id
          /\ pending' = [pending EXCEPT ![id] = [ws |-> k.ws, roomId |-> k.roomId, sender |-> k.sender]]
          /\ out' = send(conns, NoOut, k.ws, Ev("waiting", id))
  /\ tasks' = [tasks EXCEPT ![t] = IdleTask]
  /\ res' = Null
  /\ UNCHANGED <<rooms, messages, inserted, clientsByRoom, adminsByRoom, alive, events>>

\* after await bcrypt.compare: store the request, tell the requester and the admins
RequestJoinVerified(t) ==
  /\ alive
  /\ tasks[t].kind = "request-join" /\ tasks[t].pc = "rj2"
  /\ LET k == tasks[t]
         id == nextId + 1
     IN
     IF ~Compare(k.pw, k.room.roomPassHash)
     THEN /\ out' = send(conns, NoOut, k.ws, Ev("error", "Wrong passkey"))
          /\ UNCHANGED <<conns, pending, nextId>>
     ELSE /\ conns' = [conns EXCEPT ![k.ws].sender = k.sender]
          /\ nextId' = id
          /\ pending' = [pending EXCEPT ![id] = [ws |-> k.ws, roomId |-> k.roomId, sender |-> k.sender]]
          /\ out' = broadcastToAdmins(adminsByRoom, conns,
                       send(conns, NoOut, k.ws, Ev("waiting", id)),
                       k.roomId, Ev("join-request", [requestId |-> id, sender |-> k.sender]))
  /\ tasks' = [tasks EXCEPT ![t] = IdleTask]
  /\ res' = Null
  /\ UNCHANGED <<rooms, messages, inserted, clientsByRoom, adminsByRoom, alive, events>>

\* ---------------------------------------------------------- approve / deny
\* the reply of the checks of a decision, "" when they all pass
DecisionError(cs, pend, c, id) ==
  IF ~cs[c].isAdmin \/ cs[c].roomId = Null THEN "Not admin"
  ELSE IF id \notin ReqIds \/ pend[id].ws = Null THEN "Request not found"
  ELSE IF pend[id].roomId # cs[c].roomId THEN "Wrong room"
  ELSE ""

\* approve or deny that is refused
DecisionRefused(c, type, id) ==
  /\ alive /\ events < MaxEvents /\ Receiving(c)
  /\ DecisionError(conns, pending, c, id) # ""
  /\ out' = send(conns, NoOut, c, Ev("error", DecisionError(conns, pending, c, id)))
  /\ res' = Null
  /\ UNCHANGED <<rooms, messages, inserted, conns, clientsByRoom, adminsByRoom, pending, nextId, tasks, alive>>
  /\ events' = events + 1

\* mutant of Deny: the request is not removed before its terminal effect
Deny_KeepsRequest(c, id) ==
  /\ alive /\ events < MaxEvents /\ Receiving(c)
  /\ DecisionError(conns, pending, c, id) = ""
  /\ LET req == pending[id] IN
     /\ out' = markClosed(conns,
                  send(conns,
                       broadcastToAdmins(adminsByRoom, conns, NoOut, req.roomId, Ev("join-request-closed", id)),
                       req.ws, Ev("join-denied", "")),
                  {req.ws})
     /\ conns' = closeWs(conns, req.ws)
  /\ res' = Null
  /\ UNCHANGED <<rooms, messages, inserted, clientsByRoom, adminsByRoom, pending, nextId, tasks, alive>>
  /\ events' = events + 1

Deny(c, id) ==
  /\ alive /\ events < MaxEvents /\ Receiving(c)
  /\ DecisionError(conns, pending, c, id) = ""
  /\ LET req == pending[id] IN
     /\ pending' = [pending EXCEPT ![id] = NoReq]
     /\ out' = markClosed(conns,
                  send(conns,
                       broadcastToAdmins(adminsByRoom, conns, NoOut, req.roomId, Ev("join-request-closed", id)),
                       req.ws, Ev("join-denied", "")),
                  {req.ws})
     /\ conns' = closeWs(conns, req.ws)
  /\ res' = Null
  /\ UNCHANGED <<rooms, messages, inserted, clientsByRoom, adminsByRoom, nextId, tasks, alive>>
  /\ events' = events + 1

\* approve up to await getHistory
Approve(t, c, id) ==
  /\ alive /\ events < MaxEvents /\ Receiving(c) /\ FreeSlot(t)
  /\ DecisionError(conns, pending, c, id) = ""
  /\ LET req == pending[id] IN
     /\ pending' = [pending EXCEPT ![id] = NoReq]
     /\ conns' = [conns EXCEPT ![req.ws].roomId = req.roomId]
     /\ clientsByRoom' = addTo(clientsByRoom, req.roomId, req.ws)
     /\ out' = send(conns,
                  broadcastToAdmins(adminsByRoom, conns, NoOut, req.roomId, Ev("join-request-closed", id)),
                  req.ws, Ev("joined", req.roomId))
     /\ tasks' = [tasks EXCEPT ![t] =
           [IdleTask EXCEPT !.kind = "approve", !.pc = "ap1", !.ws = c, !.reqId = id,
              !.target = req.ws, !.roomId = req.roomId, !.sender = req.sender,
              !.op = "getHistory"]]
  /\ res' = Null
  /\ UNCHANGED <<rooms, messages, inserted, adminsByRoom, nextId, alive>>
  /\ events' = events + 1

\* variant that broadcasts the notice before it sends the history
ApproveHistory_NoticeFirst(t) ==
  /\ alive
  /\ tasks[t].kind = "approve" /\ tasks[t].pc = "ap1" /\ tasks[t].op = "none"
  /\ LET k == tasks[t] IN
     out' = send(conns,
              broadcastToRoom(clientsByRoom, conns, NoOut, k.roomId, Ev("system", <<k.sender, " joined.">>)),
              k.target, Ev("history", k.hist))
  /\ tasks' = [tasks EXCEPT ![t] = IdleTask]
  /\ res' = Null
  /\ UNCHANGED <<rooms, messages, inserted, conns, clientsByRoom, adminsByRoom, pending, nextId, alive, events>>

\* after await getHistory
ApproveHistory(t) ==
  /\ alive
  /\ tasks[t].kind = "approve" /\ tasks[t].pc = "ap1" /\ tasks[t].op = "none"
  /\ LET k == tasks[t] IN
     out' = broadcastToRoom(clientsByRoom, conns,
              send(conns, NoOut, k.target, Ev("history", k.hist)),
              k.roomId, Ev("system", <<k.sender, " joined.">>))
  /\ tasks' = [tasks EXCEPT ![t] = IdleTask]
  /\ res' = Null
  /\ UNCHANGED <<rooms, messages, inserted, conns, clientsByRoom, adminsByRoom, pending, nextId, alive, events>>

\* ------------------------------------------------------------------ chat
ChatNotJoined(c, text) ==
  /\ alive /\ events < MaxEvents /\ Receiving(c)
  /\ conns[c].roomId = Null
  /\ out' = send(conns, NoOut, c, Ev("error", "Not joined"))
  /\ res' = Null
  /\ UNCHANGED <<rooms, messages, inserted, conns, clientsByRoom, adminsByRoom, pending, nextId, tasks, alive>>
  /\ events' = events + 1

StartChat(t, c, text) ==
  /\ alive /\ events < MaxEvents /\ Receiving(c) /\ FreeSlot(t)
  /\ conns[c].roomId # Null
  /\ inserted + Writers < MaxMsgs
  /\ tasks' = [tasks EXCEPT ![t] =
        [IdleTask EXCEPT !.kind = "chat", !.pc = "ch1", !.ws = c,
           !.roomId = conns[c].roomId, !.text = text, !.op = "getRoom"]]
  /\ out' = NoOut
  /\ res' = Null
  /\ UNCHANGED <<rooms, messages, inserted, conns, clientsByRoom, adminsByRoom, pending, nextId, alive>>
  /\ events' = events + 1

\* variant that tests the text before trimming it
ChatRoom_RawText(t) ==
  /\ alive
  /\ tasks[t].kind = "chat" /\ tasks[t].pc = "ch1" /\ tasks[t].op = "none"
  /\ LET k == tasks[t] IN
     IF ~k.room.found \/ ~k.room.enabled
     THEN /\ out' = markClosed(conns, send(conns, NoOut, k.ws, Ev("error", "Room disabled")), {k.ws})
          /\ conns' = closeWs(conns, k.ws)
          /\ tasks' = [tasks EXCEPT ![t] = IdleTask]
     ELSE IF k.text = ""
     THEN /\ out' = NoOut
          /\ tasks' = [tasks EXCEPT ![t] = IdleTask]
          /\ UNCHANGED conns
     ELSE /\ out' = NoOut
          /\ tasks' = [tasks EXCEPT ![t].pc = "ch2", ![t].op = "addText",
                          ![t].text = Trim(k.text),
                          ![t].roomId = conns[k.ws].roomId, ![t].sender = conns[k.ws].sender]
          /\ UNCHANGED conns
  /\ res' = Null
  /\ UNCHANGED <<rooms, messages, inserted, clientsByRoom, adminsByRoom, pending, nextId, alive, events>>

\* after await getRoom: refuse, drop, or ask for the insert
ChatRoom(t) ==
  /\ alive
  /\ tasks[t].kind = "chat" /\ tasks[t].pc = "ch1" /\ tasks[t].op = "none"
  /\ LET k == tasks[t] IN
     IF ~k.room.found \/ ~k.room.enabled
     THEN /\ out' = markClosed(conns, send(conns, NoOut, k.ws, Ev("error", "Room disabled")), {k.ws})
          /\ conns' = closeWs(conns, k.ws)
          /\ tasks' = [tasks EXCEPT ![t] = IdleTask]
     ELSE IF Trim(k.text) = ""
     THEN /\ out' = NoOut
          /\ tasks' = [tasks EXCEPT ![t] = IdleTask]
          /\ UNCHANGED conns
     ELSE /\ out' = NoOut
          /\ tasks' = [tasks EXCEPT ![t].pc = "ch2", ![t].op = "addText",
                          ![t].text = Trim(k.text),
                          ![t].roomId = conns[k.ws].roomId, ![t].sender = conns[k.ws].sender]
          /\ UNCHANGED conns
  /\ res' = Null
  /\ UNCHANGED <<rooms, messages, inserted, clientsByRoom, adminsByRoom, pending, nextId, alive, events>>

\* after await addText: broadcast to ws.roomId as it is now
ChatBroadcast(t) ==
  /\ alive
  /\ tasks[t].kind = "chat" /\ tasks[t].pc = "ch2" /\ tasks[t].op = "none"
  /\ LET k == tasks[t]
         e == Ev("chat", [sender |-> conns[k.ws].sender, text |-> k.text])
     IN out' = broadcastToAdmins(adminsByRoom, conns,
                 broadcastToRoom(clientsByRoom, conns, NoOut, conns[k.ws].roomId, e),
                 conns[k.ws].roomId, e)
  /\ tasks' = [tasks EXCEPT ![t] = IdleTask]
  /\ res' = Null
  /\ UNCHANGED <<rooms, messages, inserted, conns, clientsByRoom, adminsByRoom, pending, nextId, alive, events>>

\* ---------------------------------------------- POST /api/admin/action
ActionMissing(rid, pw, action) ==
  /\ alive /\ events < MaxEvents
  /\ rid = "" \/ pw = "" \/ action = ""
  /\ res' = "400 Missing fields"
  /\ out' = NoOut
  /\ UNCHANGED <<rooms, messages, inserted, conns, clientsByRoom, adminsByRoom, pending, nextId, tasks, alive>>
  /\ events' = events + 1

StartAction(t, rid, pw, action) ==
  /\ alive /\ events < MaxEvents /\ FreeSlot(t)
  /\ rid # "" /\ pw # "" /\ action # ""
  /\ tasks' = [tasks EXCEPT ![t] =
        [IdleTask EXCEPT !.kind = "action", !.pc = "ac1", !.ws = Http,
           !.roomId = rid, !.pw = pw, !.text = action, !.op = "getRoom"]]
  /\ out' = NoOut
  /\ res' = Null
  /\ UNCHANGED <<rooms, messages, inserted, conns, clientsByRoom, adminsByRoom, pending, nextId, alive>>
  /\ events' = events + 1

\* after await getRoom
ActionRoom(t) ==
  /\ alive
  /\ tasks[t].kind = "action" /\ tasks[t].pc = "ac1" /\ tasks[t].op = "none"
  /\ IF ~tasks[t].room.found
     THEN /\ res' = "404 Room not found"
          /\ tasks' = [tasks EXCEPT ![t] = IdleTask]
     ELSE /\ res' = Null
          /\ tasks' = [tasks EXCEPT ![t].pc = "ac2"]
  /\ out' = NoOut
  /\ UNCHANGED <<rooms, messages, inserted, conns, clientsByRoom, adminsByRoom, pending, nextId, alive, events>>

\* after await bcrypt.compare: ask the record store for the action's statement
ActionVerified(t) ==
  /\ alive
  /\ tasks[t].kind = "action" /\ tasks[t].pc = "ac2"
  /\ LET k == tasks[t] IN
     IF ~Compare(k.pw, k.room.adminPassHash)
     THEN /\ res' = "403 Wrong admin password"
          /\ tasks' = [tasks EXCEPT ![t] = IdleTask]
     ELSE IF k.text \in {"enable", "disable"}
     THEN /\ res' = Null
          /\ tasks' = [tasks EXCEPT ![t].pc = "ac3", ![t].op = k.text]
     ELSE IF k.text = "clear"
     THEN /\ res' = Null
          /\ tasks' = [tasks EXCEPT ![t].pc = "ac3", ![t].op = "clearChat"]
     ELSE /\ res' = "400 Unknown action"
          /\ tasks' = [tasks EXCEPT ![t] = IdleTask]
  /\ out' = NoOut
  /\ UNCHANGED <<rooms, messages, inserted, conns, clientsByRoom, adminsByRoom, pending, nextId, alive, events>>

\* owners of the pending requests of a room
OwnersIn(pend, roomId) == {pend[i].ws : i \in {j \in ReqIds : pend[j].ws # Null /\ pend[j].roomId = roomId}}

\* kickRoom: send "kicked" and close, member by member
kickOut(cbr, cs, o, roomId) == markClosed(cs, sendAll(cs, o, cbr[roomId], Ev("kicked", "Room disabled by admin")), cbr[roomId])
kickConns(cbr, cs, roomId) == closeAll(cs, cbr[roomId])

\* denyPendingForRoom: send the error and close, entry by entry
denyOut(pend, cs, o, roomId) ==
  markClosed(cs, sendAll(cs, o, OwnersIn(pend, roomId), Ev("error", "Room disabled by admin")), OwnersIn(pend, roomId))
denyConns(pend, cs, roomId) == closeAll(cs, OwnersIn(pend, roomId))
denyPending(pend, roomId) == [i \in ReqIds |-> IF pend[i].roomId = roomId THEN NoReq ELSE pend[i]]

\* variant that also drops the pending requests of the room
EnableDone_DropsPending(t) ==
  /\ alive
  /\ tasks[t].kind = "action" /\ tasks[t].pc = "ac3" /\ tasks[t].op = "none"
  /\ tasks[t].text = "enable"
  /\ LET k == tasks[t]
         e == Ev("room-status", TRUE)
     IN out' = broadcastToAdmins(adminsByRoom, conns,
                 broadcastToRoom(clientsByRoom, conns, NoOut, k.roomId, e), k.roomId, e)
  /\ res' = "ok"
  /\ tasks' = [tasks EXCEPT ![t] = IdleTask]
  /\ pending' = denyPending(pending, tasks[t].roomId)
  /\ UNCHANGED <<rooms, messages, inserted, conns, clientsByRoom, adminsByRoom, nextId, alive, events>>

\* after await setRoomEnabled(roomId, true)
EnableDone(t) ==
  /\ alive
  /\ tasks[t].kind = "action" /\ tasks[t].pc = "ac3" /\ tasks[t].op = "none"
  /\ tasks[t].text = "enable"
  /\ LET k == tasks[t]
         e == Ev("room-status", TRUE)
     IN out' = broadcastToAdmins(adminsByRoom, conns,
                 broadcastToRoom(clientsByRoom, conns, NoOut, k.roomId, e), k.roomId, e)
  /\ res' = "ok"
  /\ tasks' = [tasks EXCEPT ![t] = IdleTask]
  /\ UNCHANGED <<rooms, messages, inserted, conns, clientsByRoom, adminsByRoom, pending, nextId, alive, events>>

\* after await setRoomEnabled(roomId, false)
DisableDone(t) ==
  /\ alive
  /\ tasks[t].kind = "action" /\ tasks[t].pc = "ac3" /\ tasks[t].op = "none"
  /\ tasks[t].text = "disable"
  /\ LET k == tasks[t]
         o1 == broadcastToAdmins(adminsByRoom, conns, NoOut, k.roomId, Ev("room-status", FALSE))
         o2 == kickOut(clientsByRoom, conns, o1, k.roomId)
         cs2 == kickConns(clientsByRoom, conns, k.roomId)
     IN /\ out' = denyOut(pending, cs2, o2, k.roomId)
        /\ conns' = denyConns(pending, cs2, k.roomId)
        /\ clientsByRoom' = [clientsByRoom EXCEPT ![k.roomId] = {}]
        /\ pending' = denyPending(pending, k.roomId)
  /\ res' = "ok"
  /\ tasks' = [tasks EXCEPT ![t] = IdleTask]
  /\ UNCHANGED <<rooms, messages, inserted, adminsByRoom, nextId, alive, events>>

\* after await clearChat(roomId)
ClearDone(t) ==
  /\ alive
  /\ tasks[t].kind = "action" /\ tasks[t].pc = "ac3" /\ tasks[t].op = "none"
  /\ tasks[t].text = "clear"
  /\ LET k == tasks[t]
         e == Ev("chat-cleared", "")
     IN out' = broadcastToAdmins(adminsByRoom, conns,
                 broadcastToRoom(clientsByRoom, conns, NoOut, k.roomId, e), k.roomId, e)
  /\ res' = "ok"
  /\ tasks' = [tasks EXCEPT ![t] = IdleTask]
  /\ UNCHANGED <<rooms, messages, inserted, conns, clientsByRoom, adminsByRoom, pending, nextId, alive, events>>

\* ------------------------------------------------------ POST /api/upload
\* String.prototype.toLowerCase on the media types of the model
Lower(m) == IF m = "IMAGE/PNG" THEN "image/png" ELSE m
\* mime.startsWith("image/") || startsWith("video/") || startsWith("audio/")
IsMedia(m) == m \in {"image/png", "video/mp4", "audio/ogg"}

UploadInvalid(hasFile, rid, pw) ==
  /\ alive /\ events < MaxEvents
  /\ ~hasFile \/ rid = "" \/ pw = ""
  /\ res' = IF ~hasFile THEN "400 No file" ELSE "400 Missing room/password"
  /\ out' = NoOut
  /\ UNCHANGED <<rooms, messages, inserted, conns, clientsByRoom, adminsByRoom, pending, nextId, tasks, alive>>
  /\ events' = events + 1

StartUpload(t, rid, pw, s, mime) ==
  /\ alive /\ events < MaxEvents /\ FreeSlot(t)
  /\ rid # "" /\ pw # ""
  /\ inserted + Writers < MaxMsgs
  /\ tasks' = [tasks EXCEPT ![t] =
        [IdleTask EXCEPT !.kind = "upload", !.pc = "up1", !.ws = Http,
           !.roomId = rid, !.pw = pw, !.sender = s, !.text = mime, !.op = "getRoom"]]
  /\ out' = NoOut
  /\ res' = Null
  /\ UNCHANGED <<rooms, messages, inserted, conns, clientsByRoom, adminsByRoom, pending, nextId, alive>>
  /\ events' = events + 1

\* after await getRoom
UploadRoom(t) ==
  /\ alive
  /\ tasks[t].kind = "upload" /\ tasks[t].pc = "up1" /\ tasks[t].op = "none"
  /\ IF ~tasks[t].room.found
     THEN /\ res' = "404 Room not found"
          /\ tasks' = [tasks EXCEPT ![t] = IdleTask]
     ELSE IF ~tasks[t].room.enabled
     THEN /\ res' = "403 Room disabled"
          /\ tasks' = [tasks EXCEPT ![t] = IdleTask]
     ELSE /\ res' = Null
          /\ tasks' = [tasks EXCEPT ![t].pc = "up2"]
  /\ out' = NoOut
  /\ UNCHANGED <<rooms, messages, inserted, conns, clientsByRoom, adminsByRoom, pending, nextId, alive, events>>

\* variant that takes any media type
UploadVerified_AnyType(t) ==
  /\ alive
  /\ tasks[t].kind = "upload" /\ tasks[t].pc = "up2"
  /\ LET k == tasks[t] IN
     IF ~Compare(k.pw, k.room.roomPassHash)
     THEN /\ res' = "403 Wrong passkey"
          /\ tasks' = [tasks EXCEPT ![t] = IdleTask]
     ELSE IF FALSE
     THEN /\ res' = "400 Only image/video/audio allowed"
          /\ tasks' = [tasks EXCEPT ![t] = IdleTask]
     ELSE /\ res' = Null
          /\ tasks' = [tasks EXCEPT ![t].pc = "up3", ![t].op = "addFile",
                          ![t].sender = SliceName(k.sender, "User"), ![t].text = Lower(k.text)]
  /\ out' = NoOut
  /\ UNCHANGED <<rooms, messages, inserted, conns, clientsByRoom, adminsByRoom, pending, nextId, alive, events>>

\* after await bcrypt.compare: check the media type, ask for the insert
UploadVerified(t) ==
  /\ alive
  /\ tasks[t].kind = "upload" /\ tasks[t].pc = "up2"
  /\ LET k == tasks[t] IN
     IF ~Compare(k.pw, k.room.roomPassHash)
     THEN /\ res' = "403 Wrong passkey"
          /\ tasks' = [tasks EXCEPT ![t] = IdleTask]
     ELSE IF ~IsMedia(Lower(k.text))
     THEN /\ res' = "400 Only image/video/audio allowed"
          /\ tasks' = [tasks EXCEPT ![t] = IdleTask]
     ELSE /\ res' = Null
          /\ tasks' = [tasks EXCEPT ![t].pc = "up3", ![t].op = "addFile",
                          ![t].sender = SliceName(k.sender, "User"), ![t].text = Lower(k.text)]
  /\ out' = NoOut
  /\ UNCHANGED <<rooms, messages, inserted, conns, clientsByRoom, adminsByRoom, pending, nextId, alive, events>>

\* after await addFile
UploadBroadcast(t) ==
  /\ alive
  /\ tasks[t].kind = "upload" /\ tasks[t].pc = "up3" /\ tasks[t].op = "none"
  /\ LET k == tasks[t]
         e == Ev("file", [sender |-> k.sender, url |-> FileUrl, mime |-> k.text])
     IN out' = broadcastToAdmins(adminsByRoom, conns,
                 broadcastToRoom(clientsByRoom, conns, NoOut, k.roomId, e), k.roomId, e)
  /\ res' = "ok"
  /\ tasks' = [tasks EXCEPT ![t] = IdleTask]
  /\ UNCHANGED <<rooms, messages, inserted, conns, clientsByRoom, adminsByRoom, pending, nextId, alive, events>>

\* ------------------------------------------- POST /api/admin/create-room
CreateMissing(rid, rp, ap) ==
  /\ alive /\ events < MaxEvents
  /\ rid = "" \/ rp = "" \/ ap = ""
  /\ res' = "400 Missing fields"
  /\ out' = NoOut
  /\ UNCHANGED <<rooms, messages, inserted, conns, clientsByRoom, adminsByRoom, pending, nextId, tasks, alive>>
  /\ events' = events + 1

StartCreate(t, rid, rp, ap) ==
  /\ alive /\ events < MaxEvents /\ FreeSlot(t)
  /\ rid # "" /\ rp # "" /\ ap # ""
  /\ tasks' = [tasks EXCEPT ![t] =
        [IdleTask EXCEPT !.kind = "create-room", !.pc = "cr1", !.ws = Http,
           !.roomId = rid, !.pw = rp, !.pw2 = ap, !.op = "getRoom"]]
  /\ out' = NoOut
  /\ res' = Null
  /\ UNCHANGED <<rooms, messages, inserted, conns, clientsByRoom, adminsByRoom, pending, nextId, alive>>
  /\ events' = events + 1

\* after await getRoom
CreateRoomChecked(t) ==
  /\ alive
  /\ tasks[t].kind = "create-room" /\ tasks[t].pc = "cr1" /\ tasks[t].op = "none"
  /\ IF tasks[t].room.found
     THEN /\ res' = "409 Room already exists"
          /\ tasks' = [tasks EXCEPT ![t] = IdleTask]
     ELSE /\ res' = Null
          /\ tasks' = [tasks EXCEPT ![t].pc = "cr2"]
  /\ out' = NoOut
  /\ UNCHANGED <<rooms, messages, inserted, conns, clientsByRoom, adminsByRoom, pending, nextId, alive, events>>

\* after the first await bcrypt.hash
CreateRoomHashed1(t) ==
  /\ alive
  /\ tasks[t].kind = "create-room" /\ tasks[t].pc = "cr2"
  /\ tasks' = [tasks EXCEPT ![t].pc = "cr3"]
  /\ out' = NoOut
  /\ res' = Null
  /\ UNCHANGED <<rooms, messages, inserted, conns, clientsByRoom, adminsByRoom, pending, nextId, alive, events>>

\* after the second await bcrypt.hash: ask for the insert
CreateRoomHashed2(t) ==
  /\ alive
  /\ tasks[t].kind = "create-room" /\ tasks[t].pc = "cr3"
  /\ tasks' = [tasks EXCEPT ![t].pc = "cr4", ![t].op = "insertRoom"]
  /\ out' = NoOut
  /\ res' = Null
  /\ UNCHANGED <<rooms, messages, inserted, conns, clientsByRoom, adminsByRoom, pending, nextId, alive, events>>

\* after await dbRun(INSERT INTO rooms)
CreateRoomDone(t) ==
  /\ alive
  /\ tasks[t].kind = "create-room" /\ tasks[t].pc = "cr4" /\ tasks[t].op = "none"
  /\ tasks' = [tasks EXCEPT ![t] = IdleTask]
  /\ out' = NoOut
  /\ res' = "ok"
  /\ UNCHANGED <<rooms, messages, inserted, conns, clientsByRoom, adminsByRoom, pending, nextId, alive, events>>

\* ------------------------------------------------------------- admission
\* both rooms exist; one handler in flight at a time; sockets come and go
InitAdm == InitWith(RoomIds, <<>>)

NextAdm ==
  \/ \E c \in Conns : Connect(c)
  \/ \E c \in Conns : Close(c)
  \/ \E t \in Tasks : DbExec(t)
  \/ \E t \in Solo, c \in Conns, rid \in RoomIdInputs, pw \in Passwords, s \in AdminNames :
        StartAdminAttach(t, c, rid, pw, s)
  \/ \E t \in Tasks : AdminAttachRoom(t)
  \/ \E t \in Tasks : AdminAttachVerified(t)
  \/ \E t \in Tasks : AdminAttachHistory(t)
  \/ \E t \in Solo, c \in Conns, rid \in RoomIdInputs, pw \in Passwords, s \in JoinNames :
        StartRequestJoin(t, c, rid, pw, s)
  \/ \E t \in Tasks : RequestJoinRoom(t)
  \/ \E t \in Tasks : RequestJoinVerified(t)
  \/ \E c \in Conns, type \in {"approve", "deny"}, id \in IdInputs : DecisionRefused(c, type, id)
  \/ \E c \in Conns, id \in IdInputs : Deny(c, id)
  \/ \E t \in Solo, c \in Conns, id \in IdInputs : Approve(t, c, id)
  \/ \E t \in Tasks : ApproveHistory(t)
  \/ \E t \in Solo, rid \in {"r1"}, pw \in {AdminPw}, a \in {"enable", "disable"} : StartAction(t, rid, pw, a)
  \/ \E t \in Tasks : ActionRoom(t)
  \/ \E t \in Tasks : ActionVerified(t)
  \/ \E t \in Tasks : EnableDone(t)
  \/ \E t \in Tasks : DisableDone(t)

SpecAdm == InitAdm /\ [][NextAdm]_vars

\* ------------------------------------------------------------------ races
\* r1 exists; one socket; two handlers in flight: attach, join, chat and
\* upload against enable/disable
InitRace == InitWith({"r1"}, <<>>)

NextRace ==
  \/ Connect("c1")
  \/ \E t \in Tasks : DbExec(t)
  \/ \E t \in Pair : StartAdminAttach(t, "c1", " r1 ", AdminPw, "")
  \/ \E t \in Tasks : AdminAttachRoom(t)
  \/ \E t \in Tasks : AdminAttachVerified(t)
  \/ \E t \in Tasks : AdminAttachHistory(t)
  \/ \E t \in Pair : StartRequestJoin(t, "c1", " r1 ", RoomPw, LongName)
  \/ \E t \in Tasks : RequestJoinRoom(t)
  \/ \E t \in Tasks : RequestJoinVerified(t)
  \/ \E text \in TextInputs : ChatNotJoined("c1", text)
  \/ \E t \in Pair, text \in TextInputs : StartChat(t, "c1", text)
  \/ \E t \in Tasks : ChatRoom(t)
  \/ \E t \in Tasks : ChatBroadcast(t)
  \/ \E t \in Pair, m \in MimeInputs : StartUpload(t, "r1", RoomPw, "", m)
  \/ \E t \in Tasks : UploadRoom(t)
  \/ \E t \in Tasks : UploadVerified(t)
  \/ \E t \in Tasks : UploadBroadcast(t)
  \/ \E t \in Pair, a \in {"enable", "disable"} : StartAction(t, "r1", AdminPw, a)
  \/ \E t \in Tasks : ActionRoom(t)
  \/ \E t \in Tasks : ActionVerified(t)
  \/ \E t \in Tasks : EnableDone(t)
  \/ \E t \in Tasks : DisableDone(t)

SpecRace == InitRace /\ [][NextRace]_vars

\* ---------------------------------------------------------------- history
\* the messages table already holds n rows written by earlier chats: the
\* second belongs to r2, the others to r1, each with its own text
Stored(n) ==
  [i \in 1..n |-> TextRow(IF i = 2 THEN "r2" ELSE "r1", "u", ToString(i))]

InitHist == \E n \in 0..MaxStored : InitWith(RoomIds, Stored(n))

NextHist ==
  \/ \E c \in Conns : Connect(c)
  \/ \E t \in Tasks : DbExec(t)
  \/ \E t \in Solo, rid \in {" r1 ", "r2"} : StartAdminAttach(t, "c1", rid, AdminPw, "")
  \/ \E t \in Tasks : AdminAttachRoom(t)
  \/ \E t \in Tasks : AdminAttachVerified(t)
  \/ \E t \in Tasks : AdminAttachHistory(t)
  \/ \E t \in Solo : StartRequestJoin(t, "c2", " r1 ", RoomPw, LongName)
  \/ \E t \in Tasks : RequestJoinRoom(t)
  \/ \E t \in Tasks : RequestJoinVerified(t)
  \/ \E t \in Solo, i \in ReqIds : Approve(t, "c1", i)
  \/ \E t \in Tasks : ApproveHistory(t)
  \/ \E t \in Solo : StartChat(t, "c1", " hi ")
  \/ \E t \in Tasks : ChatRoom(t)
  \/ \E t \in Tasks : ChatBroadcast(t)
  \/ \E t \in Solo : StartAction(t, "r1", AdminPw, "clear")
  \/ \E t \in Tasks : ActionRoom(t)
  \/ \E t \in Tasks : ActionVerified(t)
  \/ \E t \in Tasks : ClearDone(t)

SpecHist == InitHist /\ [][NextHist]_vars

\* ------------------------------------------------------------------- chat
\* chats by admins and members while sockets attach, join and close, and
\* while statements fail
NextChat ==
  \/ \E c \in Conns : Connect(c)
  \/ Close("c2")
  \/ \E t \in Tasks : DbExec(t)
  \/ \E t \in Tasks : DbFail(t)
  \/ \E t \in Pair, rid \in {" r1 ", "r2"}, s \in {"", "B"} : StartAdminAttach(t, "c1", rid, AdminPw, s)
  \/ \E t \in Tasks : AdminAttachRoom(t)
  \/ \E t \in Tasks : AdminAttachVerified(t)
  \/ \E t \in Tasks : AdminAttachHistory(t)
  \/ \E t \in Solo : StartRequestJoin(t, "c2", " r1 ", RoomPw, LongName)
  \/ \E t \in Tasks : RequestJoinRoom(t)
  \/ \E t \in Tasks : RequestJoinVerified(t)
  \/ \E t \in Solo, i \in ReqIds : Approve(t, "c1", i)
  \/ \E t \in Tasks : ApproveHistory(t)
  \/ \E c \in Conns, text \in TextInputs : ChatNotJoined(c, text)
  \/ \E t \in Pair, c \in Conns, text \in TextInputs : StartChat(t, c, text)
  \/ \E t \in Tasks : ChatRoom(t)
  \/ \E t \in Tasks : ChatBroadcast(t)

SpecChat == InitAdm /\ [][NextChat]_vars

\* ------------------------------------------------------------ create-room
\* the INSERT of a create-room handler is rejected because the key exists
InsertConflict(t) ==
  /\ tasks[t].op = "insertRoom" /\ tasks[t].roomId \in DOMAIN rooms
  /\ DbFail(t)

\* r1 exists; two create-room calls in flight, r1 is disabled and enabled
NextCreate ==
  \/ \E t \in Tasks : DbExec(t)
  \/ \E t \in Tasks : InsertConflict(t)
  \/ \E rid \in {"", "r2"}, rp \in {"", RoomPw} : CreateMissing(rid, rp, AdminPw)
  \/ \E t \in Pair, rid \in RoomIds, rp \in {RoomPw, "q"} : StartCreate(t, rid, rp, AdminPw)
  \/ \E t \in Tasks : CreateRoomChecked(t)
  \/ \E t \in Tasks : CreateRoomHashed1(t)
  \/ \E t \in Tasks : CreateRoomHashed2(t)
  \/ \E t \in Tasks : CreateRoomDone(t)
  \/ \E t \in Pair, a \in {"enable", "disable"} : StartAction(t, "r1", AdminPw, a)
  \/ \E t \in Tasks : ActionRoom(t)
  \/ \E t \in Tasks : ActionVerified(t)
  \/ \E t \in Tasks : EnableDone(t)
  \/ \E t \in Tasks : DisableDone(t)

SpecCreate == InitRace /\ [][NextCreate]_vars

\* ----------------------------------------------------------------- upload
\* r1 exists, r0 does not; c1 attaches to r1; uploads of both media types
\* with right and wrong passphrases while r1 is disabled and enabled
NextUpload ==
  \/ Connect("c1")
  \/ \E t \in Tasks : DbExec(t)
  \/ \E t \in Pair : StartAdminAttach(t, "c1", " r1 ", AdminPw, "")
  \/ \E t \in Tasks : AdminAttachRoom(t)
  \/ \E t \in Tasks : AdminAttachVerified(t)
  \/ \E t \in Tasks : AdminAttachHistory(t)
  \/ \E f \in BOOLEAN, rid \in {"", "r1"}, pw \in {"", RoomPw} : UploadInvalid(f, rid, pw)
  \/ \E t \in Pair, rid \in {"r1", "r0"}, pw \in {RoomPw, AdminPw}, s \in UploadNames, m \in MimeInputs :
        StartUpload(t, rid, pw, s, m)
  \/ \E t \in Tasks : UploadRoom(t)
  \/ \E t \in Tasks : UploadVerified(t)
  \/ \E t \in Tasks : UploadBroadcast(t)
  \/ \E t \in Pair, a \in {"enable", "disable"} : StartAction(t, "r1", AdminPw, a)
  \/ \E t \in Tasks : ActionRoom(t)
  \/ \E t \in Tasks : ActionVerified(t)
  \/ \E t \in Tasks : EnableDone(t)
  \/ \E t \in Tasks : DisableDone(t)

SpecUpload == InitRace /\ [][NextUpload]_vars

\* ---------------------------------------------------------------- claims
RoomsOf(map, c) == {r \in RoomIds : c \in map[r]}
Owns(c) == \E i \in ReqIds : pending[i].ws = c
PendingFor(pend, r) == {i \in ReqIds : pend[i].ws # Null /\ pend[i].roomId = r}

\* C3: whenever the checks of approve/deny would let a connection decide a
\* pending request, that connection has verified the admin passphrase of the
\* request's room (only a successful admin-attach puts it into adminsByRoom).
C3_DecisionOnlyByRoomAdmin ==
  \A c \in Conns, i \in ReqIds :
    (Receiving(c) /\ pending[i].ws # Null /\ DecisionError(conns, pending, c, i) = "")
      => c \in adminsByRoom[pending[i].roomId]

Disabled(r) == r \in DOMAIN rooms /\ ~rooms[r].enabled
Appended(r) == Len(messages') > Len(messages) /\ messages'[Len(messages')].roomId = r

\* C1 (as claimed): while the enabled flag of a room is false, no step
\* stores a new pending request for the room and no step appends a text or
\* file record for it.
C1_Step ==
  \A r \in RoomIds :
    Disabled(r) => /\ PendingFor(pending', r) \subseteq PendingFor(pending, r)
                   /\ ~Appended(r)
C1_DisabledAcceptsNothing == [][C1_Step]_vars

\* the step finishes handler t without a record-store failure
Finishes(t, kind) == tasks[t].kind = kind /\ tasks[t].op = "none" /\ tasks'[t].kind = "idle"
Open(c) == conns[c].readyState = "OPEN"
Has(s, type) == \E j \in 1..Len(s) : s[j].type = type
Follows(s, a, b) == \E j \in 1..Len(s) : j < Len(s) /\ s[j].type = a /\ s[j + 1].type = b
Resolved(i) == i <= nextId /\ pending[i].ws = Null
Removed(i) == pending[i].ws # Null /\ pending'[i].ws = Null
Approving(i) == \E t \in Tasks : tasks[t].kind = "idle" /\ tasks'[t].kind = "approve" /\ tasks'[t].reqId = i

\* C2: a request id that has left the pending set never returns to it; while
\* it is gone, the checks of approve/deny answer an attached admin with
\* "Request not found", and a step that replies so changes nothing; the step
\* that removes an id either admits its owner or leaves the owner's socket
\* closing, never both; and "joined"/"join-denied" is sent only by a step that
\* removes a request of the receiver.
C2_Step ==
  /\ \A i \in ReqIds :
       /\ Resolved(i) =>
            /\ pending'[i] = NoReq
            /\ \A c \in Conns : (conns[c].isAdmin /\ conns[c].roomId # Null)
                  => DecisionError(conns, pending, c, i) = "Request not found"
       /\ Removed(i) =>
            LET w == pending[i].ws
                r == pending[i].roomId
            IN IF Approving(i)
               THEN w \in clientsByRoom'[r] /\ conns'[w].readyState = conns[w].readyState
               ELSE /\ conns'[w].readyState \in {"CLOSING", "CLOSED"}
                    /\ \A q \in RoomIds : clientsByRoom'[q] \subseteq clientsByRoom[q]
  /\ \A c \in Conns :
       /\ (Has(out'[c], "joined") \/ Has(out'[c], "join-denied"))
            => \E i \in ReqIds : pending[i].ws = c /\ Removed(i)
       /\ out'[c] = <<Ev("error", "Request not found")>>
            => UNCHANGED <<conns, pending, clientsByRoom, adminsByRoom, tasks, nextId>>
C2_ResolvedOnce == [][C2_Step]_vars

\* C2 witness: an attached admin has just been told "Request not found" for
\* an id that was handed out and is resolved
C2_Witness ==
  \E c \in Conns, i \in ReqIds :
    /\ i <= nextId /\ pending[i].ws = Null
    /\ conns[c].isAdmin
    /\ out[c] = <<Ev("error", "Request not found")>>

\* C4 (as claimed): the step that completes a disable of room R leaves R
\* without members and without pending requests, has sent `kicked` and then
\* closed every open member, has sent `error` and then closed every open
\* owner of a pending request for R, and leaves other rooms untouched.
C4_Step ==
  \A t \in Tasks :
    (Finishes(t, "action") /\ tasks[t].pc = "ac3" /\ tasks[t].text = "disable") =>
      LET R == tasks[t].roomId IN
      /\ clientsByRoom'[R] = {}
      /\ PendingFor(pending', R) = {}
      /\ \A c \in clientsByRoom[R] : Open(c) =>
            Follows(out'[c], "kicked", "close") /\ conns'[c].readyState = "CLOSING"
      /\ \A c \in OwnersIn(pending, R) : Open(c) =>
            Follows(out'[c], "error", "close") /\ conns'[c].readyState = "CLOSING"
      /\ \A r \in RoomIds \ {R} : clientsByRoom'[r] = clientsByRoom[r]
      /\ \A i \in ReqIds : pending[i].roomId # R => pending'[i] = pending[i]
C4_DisableEvicts == [][C4_Step]_vars

\* the error the checks of request-join must produce, in the claimed order
FirstFailure(room, pw) ==
  IF ~room.found THEN "Room not found"
  ELSE IF ~room.enabled THEN "Room disabled"
  ELSE IF ~Compare(pw, room.roomPassHash) THEN "Wrong passkey"
  ELSE ""

\* C10: a request-join that ends replies with the first failing check among
\* room-exists, room-enabled, passphrase; on an error nothing is stored, no
\* admin is notified and the connection is unchanged; on success the
\* requester is told `waiting`, a request is stored, and its room
\* affiliation and admin flag are what they were (none stays none).
C10_Step ==
  \A t \in Tasks :
    Finishes(t, "request-join") =>
      LET k == tasks[t]
          w == k.ws
          e == FirstFailure(k.room, k.pw)
      IN IF e # ""
         THEN /\ out'[w] = IF Open(w) THEN <<Ev("error", e)>> ELSE <<>>
              /\ \A c \in Conns \ {w} : out'[c] = <<>>
              /\ UNCHANGED <<pending, nextId, conns, clientsByRoom, adminsByRoom>>
         ELSE /\ Open(w) => (out'[w] # <<>> /\ out'[w][1] = Ev("waiting", nextId'))
              /\ nextId' = nextId + 1
              /\ pending'[nextId'].ws = w /\ pending'[nextId'].roomId = k.roomId
              /\ conns'[w].roomId = conns[w].roomId
              /\ conns'[w].isAdmin = conns[w].isAdmin
              /\ UNCHANGED <<clientsByRoom, adminsByRoom>>
C10_JoinChecks == [][C10_Step]_vars

\* C10 witness: a request for a disabled room with a wrong passphrase has
\* just been refused
C10_Witness ==
  \E c \in Conns :
    /\ out[c] = <<Ev("error", "Room disabled")>>
    /\ \E r \in DOMAIN rooms : ~rooms[r].enabled
    /\ conns[c].roomId = Null /\ ~Owns(c)

\* C5: a connection whose disconnect has been handled is in no member set,
\* in no admin set and owns no pending request.
C5_ClosedIsGone ==
  \A c \in Conns :
    conns[c].readyState = "CLOSED"
      => RoomsOf(clientsByRoom, c) = {} /\ RoomsOf(adminsByRoom, c) = {} /\ ~Owns(c)

\* C6: every connection is in the member set of at most one room and in the
\* admin set of at most one room.
C6_AtMostOneRoom ==
  \A c \in Conns :
    Cardinality(RoomsOf(clientsByRoom, c)) <= 1 /\ Cardinality(RoomsOf(adminsByRoom, c)) <= 1

\* C7: no connection owns a pending join request while it is a member of a room.
C7_PendingNotMember ==
  \A c \in Conns : ~(Owns(c) /\ RoomsOf(clientsByRoom, c) # {})

\* positions of the rows of room r in the table, and the place of row i
\* among them
RoomIdx(tbl, r) == {i \in 1..Len(tbl) : tbl[i].roomId = r}
Rank(tbl, r, i) == Cardinality({j \in RoomIdx(tbl, r) : j <= i})
\* h lists the first n rows of room r (all of them when there are fewer),
\* oldest first, and nothing else
IsOldest(h, tbl, r, n) ==
  LET idx == RoomIdx(tbl, r)
      len == IF Cardinality(idx) <= n THEN Cardinality(idx) ELSE n
  IN /\ Len(h) = len
     /\ \A i \in idx : LET k == Rank(tbl, r, i) IN k <= len => h[k] = tbl[i]
\* the history events that the step sends, with the handler that sends them
HistorySends == {<<t, c, i>> \in Tasks \X Conns \X (1..2) :
                   /\ Finishes(t, "admin-attach") \/ Finishes(t, "approve")
                   /\ i <= Len(out'[c]) /\ out'[c][i].type = "history"}

\* C8 (as claimed): a history sent on admin-attach or on approval lists all
\* rows recorded for the room since its last clear, oldest first, whatever
\* their number, and no row of another room.
C8_AllStep ==
  \A x \in HistorySends :
    IsOldest(out'[x[2]][x[3]].arg, messages, tasks[x[1]].roomId, Len(messages))
C8_HistoryIsAll == [][C8_AllStep]_vars

\* C8 (amended): a history sent on admin-attach or on approval lists the
\* oldest HistoryLimit rows recorded for the room since its last clear (all
\* of them when there are no more than HistoryLimit), oldest first, and no
\* row of another room.
C8_Step ==
  \A x \in HistorySends :
    IsOldest(out'[x[2]][x[3]].arg, messages, tasks[x[1]].roomId, HistoryLimit)
C8_HistoryIsOldest == [][C8_Step]_vars

\* C8 witness: a history of HistoryLimit rows has just been sent for a room
\* that holds more rows than that, under a row of another room
C8_Witness ==
  \E c \in Conns, i \in 1..2, r \in RoomIds :
    /\ i <= Len(out[c]) /\ out[c][i].type = "history"
    /\ Len(out[c][i].arg) = HistoryLimit
    /\ conns[c].roomId = r
    /\ Cardinality(RoomIdx(messages, r)) > HistoryLimit
    /\ RoomIdx(messages, r) # 1..Len(messages)
\* handler t resumes after its insert and ends; handler t ends on a failed
\* insert
Resumes(t) == tasks[t].kind = "chat" /\ tasks[t].pc = "ch2" /\ tasks[t].op = "none"
                /\ tasks'[t].kind = "idle"
InsertFails(t) == tasks[t].kind = "chat" /\ tasks[t].op = "addText" /\ tasks'[t].kind = "idle"
Copies(s, e) == Cardinality({j \in 1..Len(s) : s[j] = e})
InSet(map, r, c) == IF c \in map[r] THEN 1 ELSE 0

\* C9 (as claimed): when the chat handler resumes after its insert, the
\* record (room, sender, text) is in the table and every open connection
\* gets the chat event with that sender and text once for each of that
\* room's two sets it is in, and no other chat event; a failed insert sends
\* no chat event and stores nothing; no other step sends a chat event.
C9_Step ==
  /\ \A t \in Tasks : Resumes(t) =>
        LET k == tasks[t]
            e == Ev("chat", [sender |-> k.sender, text |-> k.text])
        IN /\ \E j \in 1..Len(messages) : messages[j] = TextRow(k.roomId, k.sender, k.text)
           /\ \A c \in Conns : Open(c) =>
                 /\ Copies(out'[c], e) = InSet(clientsByRoom, k.roomId, c) + InSet(adminsByRoom, k.roomId, c)
                 /\ \A j \in 1..Len(out'[c]) : out'[c][j].type = "chat" => out'[c][j] = e
  /\ \A t \in Tasks : InsertFails(t) =>
        messages' = messages /\ \A c \in Conns : ~Has(out'[c], "chat")
  /\ (\E c \in Conns : Has(out'[c], "chat")) => \E t \in Tasks : Resumes(t)
C9_AppendThenBroadcast == [][C9_Step]_vars
\* the step belongs to a create-room handler; the handler ends in it
Creating(t) == tasks[t].kind = "create-room" /\ tasks'[t] # tasks[t]
CreateEnds(t) == tasks[t].kind = "create-room" /\ tasks'[t].kind = "idle"

\* C11 (as claimed): no step of a create-room handler changes the record of
\* a room that exists; a create-room call ends with the success result when
\* its INSERT was executed and with the conflict (409) result otherwise, so
\* that of concurrent calls for one identifier one succeeds and the others
\* get the conflict result.
C11_Step ==
  \A t \in Tasks :
    /\ Creating(t) => \A r \in DOMAIN rooms : r \in DOMAIN rooms' /\ rooms'[r] = rooms[r]
    /\ CreateEnds(t) =>
          IF tasks[t].pc = "cr4" /\ tasks[t].op = "none"
          THEN res' = "ok"
          ELSE res' = "409 Room already exists" /\ tasks[t].roomId \in DOMAIN rooms
C11_CreateConflict == [][C11_Step]_vars
\* steps of a clear action: any, the one that runs its DELETE, its last
Clearing(t) == tasks[t].kind = "action" /\ tasks[t].text = "clear" /\ tasks'[t] # tasks[t]
ClearRuns(t) == Clearing(t) /\ tasks[t].op = "clearChat" /\ tasks'[t].kind = "action"
ClearEnds(t) == Clearing(t) /\ tasks[t].pc = "ac3" /\ tasks[t].op = "none"

\* C12: a clear action on room R changes no member set, no admin set, no
\* pending request, no room record and no message of another room; its
\* DELETE leaves no message of R; its last step answers ok and sends
\* chat-cleared to every open connection once for each of R's two sets it
\* is in.
C12_Step ==
  \A t \in Tasks :
    LET R == tasks[t].roomId
        e == Ev("chat-cleared", "")
    IN /\ Clearing(t) =>
            /\ clientsByRoom' = clientsByRoom /\ adminsByRoom' = adminsByRoom
            /\ pending' = pending /\ rooms' = rooms /\ conns' = conns
            /\ \A r \in RoomIds \ {R} : SelectRoom(messages', r) = SelectRoom(messages, r)
       /\ ClearRuns(t) => RoomIdx(messages', R) = {}
       /\ ClearEnds(t) =>
            /\ res' = "ok"
            /\ \A c \in Conns : Open(c) =>
                  Copies(out'[c], e) = InSet(clientsByRoom, R, c) + InSet(adminsByRoom, R, c)
C12_ClearFrame == [][C12_Step]_vars

\* C12 witness: a clear of r1 has just ended, a connection was told, r1's
\* rows are gone and the row of r2 is still there
C12_Witness ==
  /\ res = "ok"
  /\ \E c \in Conns : Has(out[c], "chat-cleared")
  /\ Len(messages) = 1 /\ messages[1].roomId = "r2"
\* C13 (as claimed): the display name of a connection that has a room
\* affiliation (joined by approval or attached as admin) is never changed by
\* any step, and the record a chat handler asks to insert carries that name.
C13_Step ==
  /\ \A c \in Conns : conns[c].roomId # Null => conns'[c].sender = conns[c].sender
  /\ \A t \in Tasks :
        (tasks'[t].kind = "chat" /\ tasks'[t].op = "addText" /\ tasks[t].op # "addText")
          => tasks'[t].sender = conns[tasks[t].ws].sender
C13_NameFixed == [][C13_Step]_vars
\* a step of the chat handler t whose text is blank after trimming; the
\* step in which it resumes with the room it read
Blank(t) == tasks[t].kind = "chat" /\ Trim(tasks[t].text) = "" /\ tasks'[t] # tasks[t]
RoomRead(t) == tasks[t].pc = "ch1" /\ tasks[t].op = "none"
Silent(t) == /\ out' = NoOut /\ conns' = conns /\ messages' = messages
             /\ tasks'[t].op # "addText"

\* C14 (as claimed): no step of a chat handler whose text is blank after
\* trimming sends anything, closes a connection, appends a record or asks
\* for an insert, whatever the room of the sender.
C14_AnyStep == \A t \in Tasks : Blank(t) => Silent(t)
C14_BlankDropped == [][C14_AnyStep]_vars

\* C14 (amended): the same, when the room that the handler read exists and
\* is enabled; the handler ends there.
C14_Step ==
  \A t \in Tasks :
    Blank(t) /\ (RoomRead(t) => tasks[t].room.found /\ tasks[t].room.enabled)
      => Silent(t) /\ (RoomRead(t) => tasks'[t].kind = "idle")
C14_BlankDroppedIfEnabled == [][C14_Step]_vars

\* C14 witness: the handler of a blank chat from an open connection has
\* read its room, which is enabled
C14_Witness ==
  \E t \in Tasks :
    /\ tasks[t].kind = "chat" /\ tasks[t].pc = "ch1" /\ tasks[t].op = "none"
    /\ Trim(tasks[t].text) = "" /\ tasks[t].room.found /\ tasks[t].room.enabled
    /\ conns[tasks[t].ws].readyState = "OPEN"
\* the statement that handler t waits for fails in this step
OpFails(t) == tasks[t].op # "none" /\ tasks'[t].kind = "idle"

\* C15 (as claimed): when a statement of the record store fails, the caller
\* of the handler gets an error reply (500 for an HTTP call, an error
\* event for an open socket) and the server goes on.
C15_Step ==
  \A t \in Tasks : OpFails(t) =>
    /\ alive'
    /\ IF tasks[t].ws = Http THEN res' = "500"
       ELSE Open(tasks[t].ws) => Has(out'[tasks[t].ws], "error")
C15_FailureReported == [][C15_Step]_vars
\* declared media types that are neither image, video nor audio
NotMedia == {"application/pdf"}
\* the upload handler t resumes with the room it read, with the verdict on
\* the passphrase
UploadReads(t) == tasks[t].kind = "upload" /\ tasks[t].pc = "up1" /\ tasks[t].op = "none"
                    /\ tasks'[t] # tasks[t]
UploadChecks(t) == tasks[t].kind = "upload" /\ tasks[t].pc = "up2" /\ tasks'[t] # tasks[t]
Rejected(t) == /\ tasks'[t].kind = "idle" /\ messages' = messages /\ out' = NoOut

\* C16: an upload that names an absent or a disabled room, gives a wrong
\* room passphrase or declares a type that is not image, video or audio
\* ends without a record and without a file event, in the last case with
\* the validation (400) result; a file event is only sent by an upload that
\* passed all four checks.
C16_Step ==
  /\ \A t \in Tasks :
        LET k == tasks[t] IN
        /\ UploadReads(t) /\ (~k.room.found \/ ~k.room.enabled)
             => Rejected(t) /\ res' \in {"404 Room not found", "403 Room disabled"}
        /\ UploadChecks(t) /\ k.pw # RoomPw => Rejected(t) /\ res' = "403 Wrong passkey"
        /\ UploadChecks(t) /\ k.pw = RoomPw /\ k.text \in NotMedia
             => Rejected(t) /\ res' = "400 Only image/video/audio allowed"
  /\ (\E c \in Conns : Has(out'[c], "file")) =>
        \E t \in Tasks : /\ tasks[t].kind = "upload" /\ tasks[t].pc = "up3"
                          /\ tasks[t].room.found /\ tasks[t].room.enabled
                          /\ tasks[t].pw = RoomPw /\ tasks[t].text \notin NotMedia
  /\ \A r \in RoomIds : Appended(r) /\ messages'[Len(messages')].kind = "file" =>
        \E t \in Tasks : /\ tasks[t].op = "addFile" /\ tasks[t].roomId = r
                          /\ tasks[t].room.found /\ tasks[t].room.enabled
                          /\ tasks[t].pw = RoomPw /\ tasks[t].text \notin NotMedia
C16_BadUploadRejected == [][C16_Step]_vars

\* C16 witness: an upload has just been refused for its media type while
\* an open connection is in r1's sets
C16_Witness ==
  /\ res = "400 Only image/video/audio allowed"
  /\ \E c \in clientsByRoom["r1"] : conns[c].readyState = "OPEN"
\* steps of an enable action: any, the one that runs its UPDATE
Enabling(t) == tasks[t].kind = "action" /\ tasks[t].text = "enable" /\ tasks'[t] # tasks[t]
EnableRuns(t) == Enabling(t) /\ tasks[t].op = "enable" /\ tasks'[t].kind = "action"

\* C17: no step of an enable action changes a member set, an admin set, a
\* pending request, a message record, a connection or another room's
\* record; its UPDATE leaves the room enabled with its hashes, and changes
\* nothing at all when the room was enabled already.
C17_Step ==
  \A t \in Tasks :
    LET R == tasks[t].roomId IN
    /\ Enabling(t) =>
         /\ clientsByRoom' = clientsByRoom /\ adminsByRoom' = adminsByRoom
         /\ pending' = pending /\ messages' = messages /\ conns' = conns
         /\ \A c \in Conns : ~Has(out'[c], "close")
         /\ DOMAIN rooms' = DOMAIN rooms
         /\ \A r \in DOMAIN rooms \ {R} : rooms'[r] = rooms[r]
    /\ EnableRuns(t) /\ R \in DOMAIN rooms =>
         /\ rooms'[R] = [rooms[R] EXCEPT !.enabled = TRUE]
         /\ rooms[R].enabled => rooms' = rooms
C17_EnableIdempotent == [][C17_Step]_vars

\* C17 witness: the UPDATE of an enable action has run on a room that the
\* handler had found enabled, while the room has a pending request and an
\* open member
C17_Witness ==
  \E t \in Tasks :
    /\ tasks[t].kind = "action" /\ tasks[t].text = "enable"
    /\ tasks[t].pc = "ac3" /\ tasks[t].op = "none"
    /\ tasks[t].room.enabled /\ rooms[tasks[t].roomId].enabled
    /\ PendingFor(pending, tasks[t].roomId) # {}
    /\ \E c \in clientsByRoom[tasks[t].roomId] : conns[c].readyState = "OPEN"
\* the last event of a non-empty sequence
Last(s) == s[Len(s)]

\* C18: the step that approves request i removes it, sends
\* join-request-closed to the open admins of its room, sets the requester's
\* affiliation, puts it into the member set and sends it joined after
\* anything else it is sent, and no history yet; the step that ends an
\* approval sends an open requester the history and then the notice
\* "<name> joined.", which every open member of the room gets too; a
\* socket that is not open never becomes open again, so a requester that
\* gets the history was open when joined was sent.
C18_Step ==
  /\ \A i \in ReqIds : Approving(i) =>
        LET w == pending[i].ws
            r == pending[i].roomId
        IN /\ pending'[i] = NoReq
           /\ \A a \in adminsByRoom[r] : Open(a) => Has(out'[a], "join-request-closed")
           /\ conns'[w].roomId = r /\ w \in clientsByRoom'[r]
           /\ Open(w) => /\ out'[w] # <<>> /\ Last(out'[w]) = Ev("joined", r)
                          /\ ~Has(out'[w], "history")
  /\ \A t \in Tasks : Finishes(t, "approve") =>
        LET k == tasks[t]
            n == Ev("system", <<k.sender, " joined.">>)
        IN /\ Open(k.target) => out'[k.target] = <<Ev("history", k.hist), n>>
           /\ \A c \in clientsByRoom[k.roomId] : Open(c) => Last(out'[c]) = n
  /\ \A c \in Conns : conns[c].readyState = "CLOSING" => conns'[c].readyState # "OPEN"
C18_ApprovalOrder == [][C18_Step]_vars

\* C18 witness: an approval has just ended: the requester got the history
\* and then the notice, and an admin of the room got the notice
C18_Witness ==
  \E c \in Conns, a \in Conns :
    /\ a # c /\ Len(out[c]) = 2
    /\ out[c][1].type = "history" /\ out[c][2].type = "system"
    /\ out[c][2].arg[2] = " joined."
    /\ out[a] = <<out[c][2]>>
\* request i is stored in this step; connection c enters the admin set of
\* room r in this step
Stores(i) == pending[i].ws = Null /\ pending'[i].ws # Null
Attaches(c, r) == c \notin adminsByRoom[r] /\ c \in adminsByRoom'[r]
\* the requests (id and name) pending for room r
Outstanding(pend, r) == {[requestId |-> i, sender |-> pend[i].sender] : i \in PendingFor(pend, r)}
Listed(l) == {l[j] : j \in 1..Len(l)}

\* C19: the step that stores a request for room R sends a join-request with
\* its id and name to every open connection in R's admin set; the step
\* that puts an open connection into R's admin set sends it a pending-list
\* that lists exactly the requests pending for R in that step, each once.
C19_Step ==
  /\ \A i \in ReqIds : Stores(i) =>
        \A a \in adminsByRoom[pending'[i].roomId] : Open(a) =>
          \E j \in 1..Len(out'[a]) :
            out'[a][j] = Ev("join-request", [requestId |-> i, sender |-> pending'[i].sender])
  /\ \A c \in Conns, r \in RoomIds : Attaches(c, r) /\ Open(c) =>
        /\ pending' = pending
        /\ \E j \in 1..Len(out'[c]) :
             /\ out'[c][j].type = "pending-list"
             /\ Listed(out'[c][j].arg) = Outstanding(pending, r)
             /\ Len(out'[c][j].arg) = Cardinality(PendingFor(pending, r))
C19_AdminsKnowPending == [][C19_Step]_vars

\* C19 witness: a connection has just attached and its pending-list names
\* a request
C19_Witness ==
  \E c \in Conns, j \in 1..2 :
    /\ j <= Len(out[c]) /\ out[c][j].type = "pending-list" /\ out[c][j].arg # <<>>
    /\ \E r \in RoomIds : c \in adminsByRoom[r] /\ PendingFor(pending, r) # {}
\* C20 (as claimed): for every connection whose close has not been handled
\* and every room r, the connection's ws.roomId is r exactly when it is in
\* r's member set; and a chat handler asks for an insert for room r only
\* for a sender that is in r's member set.
C20_RegistryAgrees ==
  /\ \A c \in Conns, r \in RoomIds :
        conns[c].readyState \in {"OPEN", "CLOSING"}
          => (conns[c].roomId = r <=> c \in clientsByRoom[r])
  /\ \A t \in Tasks : tasks[t].kind = "chat" /\ tasks[t].op = "addText"
          => tasks[t].ws \in clientsByRoom[tasks[t].roomId]
\* in the state after the step, room r is disabled and no disable action
\* for it stands between its UPDATE and its eviction
Settled(r) ==
  /\ r \in DOMAIN rooms' /\ ~rooms'[r].enabled
  /\ ~\E t \in Tasks : /\ tasks'[t].kind = "action" /\ tasks'[t].text = "disable"
                        /\ tasks'[t].roomId = r /\ tasks'[t].pc = "ac3" /\ tasks'[t].op = "none"

\* C21 (as claimed): after every step, a room that is disabled, with no
\* disable action between its flag write and its eviction, has an empty
\* member set; and no step adds a connection to the member set of a room
\* that is disabled.
C21_Step ==
  \A r \in RoomIds :
    /\ Settled(r) => clientsByRoom'[r] = {}
    /\ Disabled(r) => clientsByRoom'[r] \subseteq clientsByRoom[r]
C21_DisabledHasNoMembers == [][C21_Step]_vars
\* the ids that the events of s announce as open
ToldOpen(s) ==
  {s[j].arg.requestId : j \in {n \in 1..Len(s) : s[n].type = "join-request"}}
    \cup UNION {{l.requestId : l \in Listed(s[j].arg)} :
                  j \in {n \in 1..Len(s) : s[n].type = "pending-list"}}

\* C22 (as claimed): the step in which request i leaves the pending set
\* sends join-request-closed with i to every connection of the room's admin
\* set that is open after the step; and every id that a step announces as
\* open to a connection is pending for that connection's room, as the
\* equality of "told open" and "pending for its room" needs.
C22_Step ==
  /\ \A i \in ReqIds : Removed(i) =>
        \A a \in adminsByRoom'[pending[i].roomId] :
          conns'[a].readyState = "OPEN" =>
            \E j \in 1..Len(out'[a]) : out'[a][j] = Ev("join-request-closed", i)
  /\ \A a \in Conns : ToldOpen(out'[a]) \subseteq PendingFor(pending', conns'[a].roomId)
C22_AdminsToldClosed == [][C22_Step]_vars
\* handler t has admitted or attached a connection and still owes it the
\* history; that connection
Owes(t) == \/ tasks[t].kind = "approve" /\ tasks[t].pc = "ap1"
           \/ tasks[t].kind = "admin-attach" /\ tasks[t].pc = "aa3"
Newcomer(t) == IF tasks[t].kind = "approve" THEN tasks[t].target ELSE tasks[t].ws
\* handler u ends in this step with a broadcast of chat, file or
\* chat-cleared; the room it broadcasts to
Broadcasts(u) ==
  /\ tasks[u].op = "none" /\ tasks'[u].kind = "idle"
  /\ \/ tasks[u].kind = "chat" /\ tasks[u].pc = "ch2"
     \/ tasks[u].kind = "upload" /\ tasks[u].pc = "up3"
     \/ tasks[u].kind = "action" /\ tasks[u].pc = "ac3" /\ tasks[u].text = "clear"
LiveRoom(u) == IF tasks[u].kind = "chat" THEN conns[tasks[u].ws].roomId ELSE tasks[u].roomId
IsLive(e) == e.type \in {"chat", "file", "chat-cleared"}

\* C23 (as claimed): while a handler owes a connection the history of a
\* room, no step delivers a chat, file or chat-cleared broadcast of that
\* room to the connection.
C23_Step ==
  \A t \in Tasks, u \in Tasks :
    Owes(t) /\ Broadcasts(u) /\ LiveRoom(u) = tasks[t].roomId
      => \A j \in 1..Len(out'[Newcomer(t)]) : ~IsLive(out'[Newcomer(t)][j])
C23_HistoryFirst == [][C23_Step]_vars
\* the requests that connection c owns
OwnedBy(pend, c) == {i \in ReqIds : pend[i].ws = c}

\* C24 (as claimed): a connection on which the server has called close()
\* (its socket is closing) is not added to a member set or an
\* admin set by any step and gets no new pending request.
C24_Step ==
  \A c \in Conns : conns[c].readyState = "CLOSING" =>
    /\ RoomsOf(clientsByRoom', c) \subseteq RoomsOf(clientsByRoom, c)
    /\ RoomsOf(adminsByRoom', c) \subseteq RoomsOf(adminsByRoom, c)
    /\ OwnedBy(pending', c) \subseteq OwnedBy(pending, c)
C24_TerminatedStaysOut == [][C24_Step]_vars
====
